---- MODULE Spec2Model ----
(***************************************************************************)
(* MexcClient (src/MexcClient/client.py): a REST client that builds,       *)
(* signs and sends one HTTP request per method call.                       *)
(*                                                                         *)
(* Representation of Python values                                         *)
(*   str   [str |-> <<"B","T","C">>]   a tuple of one-character strings    *)
(*   int   [int |-> 60000]                                                 *)
(*   bool  [bool |-> TRUE]                                                 *)
(*   None  [none |-> TRUE]                                                 *)
(*   list  [list |-> <<v1, v2>>]                                           *)
(*   dict  [dict |-> << <<"key", v>>, ... >>]   insertion ordered          *)
(*   text  [text |-> "literal"]   a str the client never looks into        *)
(* A dict that the client itself builds (params, body, headers) is the     *)
(* bare sequence of <<key, value>> pairs.                                  *)
(***************************************************************************)
EXTENDS Integers, Sequences, FiniteSets, TLC

VARIABLES api_key, api_secret, base_url, constructed, pc, call, trace, result

vars == <<api_key, api_secret, base_url, constructed, pc, call, trace, result>>

\* ------------------------------------------------------------------ bounds

\* Caller timestamps and clock readings, in seconds, range over 1..MaxTime.
MaxTime == 2

\* Price strings have at most MaxPriceLen characters.
MaxPriceLen == 3

\* Symbol lists handed to cancel_all_open_orders_on_a_symbol have at most
\* MaxSymbols entries (one more than the cap, so that both sides are met).
MaxSymbols == 6

\* The account holds at most MaxBalances balance records.
MaxBalances == 2

\* ------------------------------------------------------------ Python values

None == [none |-> TRUE]

PyStr(s) == [str |-> s]

PyInt(n) == [int |-> n]

IsNone(v) == "none" \in DOMAIN v

IsStr(v) == "str" \in DOMAIN v

IsInt(v) == "int" \in DOMAIN v

\* The truth value of `if v:`.
Truthy(v) ==
    CASE IsNone(v) -> FALSE
      [] IsStr(v)  -> v.str # <<>>
      [] IsInt(v)  -> v.int # 0
      [] OTHER     -> TRUE

Digit(d) == <<"0", "1", "2", "3", "4", "5", "6", "7", "8", "9">>[d + 1]

RECURSIVE IntToStr(_)
IntToStr(n) == IF n < 10 THEN <<Digit(n)>> ELSE IntToStr(n \div 10) \o <<Digit(n % 10)>>

\* str(v) of a str or a non-negative int.
Str(v) == IF IsInt(v) THEN IntToStr(v.int) ELSE v.str

\* s.replace(old, new) for one-character old and new.
\* Faulty variant: old and new change places.
ReplaceSwapped(s, old, new) == [i \in DOMAIN s |-> IF s[i] = new THEN old ELSE s[i]]

Replace(s, old, new) == [i \in DOMAIN s |-> IF s[i] = old THEN new ELSE s[i]]

RECURSIVE Join(_, _)
\* sep.join(parts)
Join(sep, parts) ==
    IF parts = <<>> THEN <<>>
    ELSE IF Len(parts) = 1 THEN parts[1]
    ELSE parts[1] \o sep \o Join(sep, Tail(parts))

\* Whether needle occurs in hay as a contiguous run of characters.
Contains(hay, needle) ==
    \E i \in 0..(Len(hay) - Len(needle)) : \A j \in 1..Len(needle) : hay[i + j] = needle[j]

\* ------------------------------------------------------------------- dicts

HasKey(d, k) == \E i \in DOMAIN d : d[i][1] = k

Get(d, k) == d[CHOOSE i \in DOMAIN d : d[i][1] = k][2]

\* dict.get(k): None for a missing key.
GetOrNone(d, k) == IF HasKey(d, k) THEN Get(d, k) ELSE None

\* d[k] = v: an existing key keeps its place, a new key goes last.
DictSet(d, k, v) ==
    IF HasKey(d, k) THEN [i \in DOMAIN d |-> IF d[i][1] = k THEN <<k, v>> ELSE d[i]]
    ELSE Append(d, <<k, v>>)

Keys(d) == [i \in DOMAIN d |-> d[i][1]]

\* d without key k, the other pairs in their order.
Without(d, k) == SelectSeq(d, LAMBDA kv : kv[1] # k)

\* --------------------------------------------------------- urllib.parse

Unreserved ==
    { "A", "B", "C", "D", "E", "F", "G", "H", "I", "J", "K", "L", "M",
      "N", "O", "P", "Q", "R", "S", "T", "U", "V", "W", "X", "Y", "Z",
      "a", "b", "c", "d", "e", "f", "g", "h", "i", "j", "k", "l", "m",
      "n", "o", "p", "q", "r", "s", "t", "u", "v", "w", "x", "y", "z",
      "0", "1", "2", "3", "4", "5", "6", "7", "8", "9", "_", ".", "-", "~" }

\* quote_plus of one character.
QuoteChar(c) ==
    CASE c \in Unreserved -> <<c>>
      [] c = " " -> <<"+">>
      [] c = "," -> <<"%", "2", "C">>
      [] c = "&" -> <<"%", "2", "6">>
      [] c = "=" -> <<"%", "3", "D">>

RECURSIVE QuotePlus(_)
QuotePlus(s) == IF s = <<>> THEN <<>> ELSE QuoteChar(Head(s)) \o QuotePlus(Tail(s))

\* urllib.parse.urlencode(d): "k1=v1&k2=v2...", kept as the sequence of its
\* <<key, quoted value>> fields in their left-to-right order.  Every key the
\* client uses is made of unreserved characters and quotes to itself.
urlencode(d) == [i \in DOMAIN d |-> <<d[i][1], QuotePlus(Str(d[i][2]))>>]

\* generate_signature(secret, message): the hex HMAC-SHA256 digest, kept as
\* the term it is computed from (equal digests iff equal key and message).
generate_signature(secret, message) == [hmac |-> [key |-> secret, msg |-> message]]

\* ------------------------------------------------------ values of the run

BTC == <<"B", "T", "C">>

ETH == <<"E", "T", "H">>

\* Trade pairs and asset codes a caller may name.
Symbols == {BTC, ETH}

\* The credentials a client may be constructed with: <<api_key, api_secret>>.
Credentials == {<<<<"m", "x", "0">>, <<"s", "k", "0">>>>, <<<<"m", "x", "1">>, <<"s", "k", "1">>>>}

\* MexcClient.Enums: the members, each with its wire value.
EnumOrderSide == {[name |-> "BUY", value |-> <<"B", "U", "Y">>], [name |-> "SELL", value |-> <<"S", "E", "L", "L">>]}

EnumOrderType == {[name |-> "LIMIT_ORDER", value |-> <<"L", "I", "M", "I", "T">>], [name |-> "MARKET_ORDER", value |-> <<"M", "A", "R", "K", "E", "T">>]}

EnumKlineInterval == {[name |-> "ONE_MINUTE", value |-> <<"1", "m">>], [name |-> "ONE_HOUR", value |-> <<"1", "h">>]}

Timestamps == {PyInt(t) : t \in 1..MaxTime}

\* All strings over chars with at most n characters.
StringsUpTo(chars, n) == UNION {[1..k -> chars] : k \in 0..n}

Quantities == {PyStr(<<"1", ",", "5">>)}

\* price: None, or any string over "1" and "," (the empty one included).
Prices == {None} \cup {PyStr(s) : s \in StringsUpTo({"1", ","}, MaxPriceLen)}

QuoteOrderQuantities == {None, PyStr(<<>>), PyStr(<<"9">>)}

ClientOrderIds == {None, PyStr(<<>>), PyStr(<<"i", "d">>)}

RecvWindows == {None, PyInt(0), PyInt(5000)}

OrderIds == {PyStr(<<"7">>)}

\* limit and the kline times: left out by the caller, or given.
Omitted == [omitted |-> TRUE]

Limits == {Omitted, PyInt(1000)}

KlineTimes == {Omitted} \cup {PyInt(t) : t \in 0..MaxTime}

\* A parameter's value: the argument, or the default of the signature.
Default(arg, dflt) == IF arg = Omitted THEN dflt ELSE arg

SymbolLists == {[list |-> l] : l \in UNION {[1..k -> {PyStr(s) : s \in Symbols}] : k \in 0..MaxSymbols}}

\* ------------------------------------------------------------- the server

EmptyObject == [dict |-> <<>>]

\* What the exchange answers on success; the client does not look into it.
OkBody == [dict |-> << <<"data", [text |-> "ok"]>> >>]

\* The exchange's JSON error body, sent with a non-success status.
ErrorBody == [dict |-> << <<"code", PyInt(700002)>>, <<"msg", [text |-> "Signature for this request is not valid."]>> >>]

Balance(asset, free) == [dict |-> << <<"asset", PyStr(asset)>>, <<"free", PyStr(free)>>, <<"locked", PyStr(<<"0">>)>> >>]

Balances == {Balance(a, f) : a \in Symbols, f \in {<<"1">>, <<"2">>}}

AccountBodies == {[dict |-> << <<"balances", [list |-> l]>> >>] : l \in UNION {[1..k -> Balances] : k \in 0..MaxBalances}}

\* The responses the transport may hand back: a success carrying one of
\* bodies, or a failure carrying the error body.
Responses(bodies) == {[ok |-> TRUE, json |-> b] : b \in bodies} \cup {[ok |-> FALSE, json |-> ErrorBody]}

\* --------------------------------------------------- what a call leaves

\* urlencode and generate_signature ran: the mapping as it was then, the
\* string that was signed, the signature.
Signed(params, str_params, signature) == [ev |-> "sign", params |-> params, str_params |-> str_params, signature |-> signature]

\* requests.<method>(url, headers=headers, params=query, data=data)
Sent(method, url, headers, query, data) == [ev |-> "send", method |-> method, url |-> url, headers |-> headers, query |-> query, data |-> data]

\* The transport returned response.
Received(response) == [ev |-> "recv", response |-> response]

Returned(v) == [returned |-> v]

Raised(e) == [raised |-> e]

\* ------------------------------------------------------ public endpoints
\* Each handler is an operator from its arguments and the transport's
\* response to what the call leaves: its events in order and its result.

check_connection(response) ==
    [trace |-> <<Sent("GET", base_url \o "/api/v3/ping", <<>>, <<>>, <<>>), Received(response)>>,
     result |-> Returned([bool |-> response.json = EmptyObject])]

server_time(response) ==
    [trace |-> <<Sent("GET", base_url \o "/api/v3/time", <<>>, <<>>, <<>>), Received(response)>>,
     result |-> Returned(response.json)]

exchange_info(response) ==
    [trace |-> <<Sent("GET", base_url \o "/api/v3/exchangeInfo", <<>>, <<>>, <<>>), Received(response)>>,
     result |-> Returned(response.json)]

order_book_of_symbol(symbol, limit, response) ==
    LET params == << <<"symbol", symbol>>, <<"limit", Default(limit, PyInt(100))>> >>
    IN  [trace |-> <<Sent("GET", base_url \o "/api/v3/depth", <<>>, params, <<>>), Received(response)>>,
         result |-> Returned(response.json)]

recent_trades_list(symbol, limit, response) ==
    LET params == << <<"symbol", symbol>>, <<"limit", Default(limit, PyInt(500))>> >>
    IN  [trace |-> <<Sent("GET", base_url \o "/api/v3/trades", <<>>, params, <<>>), Received(response)>>,
         result |-> Returned(response.json)]

old_trade_lookup(symbol, limit, response) ==
    LET params == << <<"symbol", symbol>>, <<"limit", Default(limit, PyInt(500))>> >>
    IN  [trace |-> <<Sent("GET", base_url \o "/api/v3/historicalTrades", <<>>, params, <<>>), Received(response)>>,
         result |-> Returned(response.json)]

kline_data(symbol, interval, start_time, end_time, limit, response) ==
    LET st == Default(start_time, PyInt(0))
        et == Default(end_time, PyInt(0))
        p0 == << <<"symbol", symbol>>, <<"limit", Default(limit, PyInt(500))>>, <<"interval", PyStr(interval.value)>> >>
        p1 == IF st.int > 0 THEN DictSet(p0, "startTime", st) ELSE p0
        params == IF et.int > 0 THEN DictSet(p1, "endTime", et) ELSE p1
    IN  [trace |-> <<Sent("GET", base_url \o "/api/v3/historicalTrades", <<>>, params, <<>>), Received(response)>>,
         result |-> Returned(response.json)]

current_average_price(symbol, response) ==
    LET params == << <<"symbol", symbol>> >>
    IN  [trace |-> <<Sent("GET", base_url \o "/api/v3/avgPrice", <<>>, params, <<>>), Received(response)>>,
         result |-> Returned(response.json)]

\* ------------------------------------------------------ signed endpoints

DefaultRecvWindow == 60000

\* Faulty variant: the cap is one too low.
SymbolLimitFour == 5 - 1

SymbolLimit == 5

_create(url, symbol, side, _type, timestamp, quantity, quote_order_quantity, price, new_client_order_id, recv_window, response) ==
    LET p0 == << <<"symbol", symbol>>,
                 <<"side", PyStr(side.value)>>,
                 <<"type", PyStr(_type.value)>>,
                 <<"quantity", quantity>>,
                 <<"recvWindow", PyInt(DefaultRecvWindow)>>,
                 <<"timestamp", PyInt(timestamp.int * 1000)>> >>
        headers == << <<"X-MEXC-APIKEY", PyStr(api_key)>>, <<"Content-Type", [text |-> "application/json"]>> >>
        p1 == IF Truthy(quote_order_quantity) THEN DictSet(p0, "quoteOrderQty", quote_order_quantity) ELSE p0
        p2 == IF Truthy(price) THEN DictSet(p1, "price", PyStr(Replace(price.str, ",", "."))) ELSE p1
        p3 == IF Truthy(new_client_order_id) THEN DictSet(p2, "newClientOrderId", new_client_order_id) ELSE p2
        p4 == IF Truthy(recv_window) THEN DictSet(p3, "recvWindow", recv_window) ELSE p3
        str_params == urlencode(p4)
        signature == generate_signature(api_secret, str_params)
        params == DictSet(p4, "signature", signature)
    IN  [trace |-> <<Signed(p4, str_params, signature),
                     Sent("POST", base_url \o url, headers, <<>>, params),
                     Received(response)>>,
         result |-> Returned(response.json)]

create_order_test(symbol, side, _type, timestamp, quantity, quote_order_quantity, price, new_client_order_id, recv_window, response) ==
    _create("/api/v3/order/test", symbol, side, _type, timestamp, quantity, quote_order_quantity, price, new_client_order_id, recv_window, response)

create_new_order(symbol, side, _type, timestamp, quantity, quote_order_quantity, price, new_client_order_id, recv_window, response) ==
    _create("/api/v3/order", symbol, side, _type, timestamp, quantity, quote_order_quantity, price, new_client_order_id, recv_window, response)

\* Faulty variant: the API key is put among the parameters that are signed.
_load_account_info_signs_key(now, response) ==
    LET headers == << <<"X-MEXC-APIKEY", PyStr(api_key)>>, <<"Content-Type", [text |-> "application/json"]>> >>
        p0 == << <<"timestamp", PyInt(now.int * 1000)>>, <<"apiKey", PyStr(api_key)>> >>
        str_params == urlencode(p0)
        signature == generate_signature(api_secret, str_params)
        params == DictSet(p0, "signature", signature)
    IN  [trace |-> <<Signed(p0, str_params, signature),
                     Sent("GET", base_url \o "/api/v3/account", headers, params, <<>>),
                     Received(response)>>,
         result |-> IF response.ok THEN Returned(response.json) ELSE Returned(None)]

\* Faulty variant: the secret travels in a header beside the key.
_load_account_info_sends_secret(now, response) ==
    LET headers == << <<"X-MEXC-APIKEY", PyStr(api_key)>>, <<"X-MEXC-SECRET", PyStr(api_secret)>>, <<"Content-Type", [text |-> "application/json"]>> >>
        p0 == << <<"timestamp", PyInt(now.int * 1000)>> >>
        str_params == urlencode(p0)
        signature == generate_signature(api_secret, str_params)
        params == DictSet(p0, "signature", signature)
    IN  [trace |-> <<Signed(p0, str_params, signature),
                     Sent("GET", base_url \o "/api/v3/account", headers, params, <<>>),
                     Received(response)>>,
         result |-> IF response.ok THEN Returned(response.json) ELSE Returned(None)]

\* now is int(datetime.now().timestamp()).
_load_account_info(now, response) ==
    LET headers == << <<"X-MEXC-APIKEY", PyStr(api_key)>>, <<"Content-Type", [text |-> "application/json"]>> >>
        p0 == << <<"timestamp", PyInt(now.int * 1000)>> >>
        str_params == urlencode(p0)
        signature == generate_signature(api_secret, str_params)
        params == DictSet(p0, "signature", signature)
    IN  [trace |-> <<Signed(p0, str_params, signature),
                     Sent("GET", base_url \o "/api/v3/account", headers, params, <<>>),
                     Received(response)>>,
         result |-> IF response.ok THEN Returned(response.json) ELSE Returned(None)]

load_balances(now, response) ==
    LET info == _load_account_info(now, response)
        account == info.result.returned
    IN  [trace |-> info.trace,
         result |-> IF IsNone(account) THEN Raised("AttributeError")
                    ELSE Returned(GetOrNone(account.dict, "balances"))]

load_balance_by_symbol(symbol, now, response) ==
    LET loaded == load_balances(now, response)
        balances == loaded.result.returned
        balance_of_symbol == SelectSeq(balances.list, LAMBDA i : Get(i.dict, "asset") = symbol)
    IN  [trace |-> loaded.trace,
         result |-> IF "raised" \in DOMAIN loaded.result THEN loaded.result
                    ELSE IF IsNone(balances) THEN Raised("TypeError")
                    ELSE IF balance_of_symbol = <<>> THEN Raised("IndexError")
                    ELSE Returned(balance_of_symbol[1])]

\* Faulty variant: orderId joins the body after the signature was computed.
cancel_order_late_order_id(symbol, order_id, timestamp, response) ==
    LET headers == << <<"X-MEXC-APIKEY", PyStr(api_key)>>, <<"Content-Type", [text |-> "application/json"]>> >>
        b0 == << <<"timestamp", PyInt(timestamp.int * 1000)>>, <<"symbol", symbol>> >>
        str_params == urlencode(b0)
        signature == generate_signature(api_secret, str_params)
        body == DictSet(DictSet(b0, "orderId", order_id), "signature", signature)
    IN  [trace |-> <<Signed(b0, str_params, signature),
                     Sent("DELETE", base_url \o "/api/v3/order", headers, <<>>, body),
                     Received(response)>>,
         result |-> Returned(response.json)]

cancel_order(symbol, order_id, timestamp, response) ==
    LET headers == << <<"X-MEXC-APIKEY", PyStr(api_key)>>, <<"Content-Type", [text |-> "application/json"]>> >>
        b0 == << <<"timestamp", PyInt(timestamp.int * 1000)>>, <<"symbol", symbol>>, <<"orderId", order_id>> >>
        str_params == urlencode(b0)
        signature == generate_signature(api_secret, str_params)
        body == DictSet(b0, "signature", signature)
    IN  [trace |-> <<Signed(b0, str_params, signature),
                     Sent("DELETE", base_url \o "/api/v3/order", headers, <<>>, body),
                     Received(response)>>,
         result |-> Returned(response.json)]

\* Faulty variant: the timestamp is sent in seconds.
cancel_all_open_orders_seconds(symbols, timestamp, response) ==
    LET headers == << <<"X-MEXC-APIKEY", PyStr(api_key)>>, <<"Content-Type", [text |-> "application/json"]>> >>
        b0 == << <<"timestamp", PyInt(timestamp.int)>> >>
        b1 == DictSet(b0, "symbol", PyStr(Join(<<",">>, [i \in DOMAIN symbols.list |-> symbols.list[i].str])))
        str_params == urlencode(b1)
        signature == generate_signature(api_secret, str_params)
        body == DictSet(b1, "signature", signature)
    IN  IF Len(symbols.list) > SymbolLimit
        THEN [trace |-> <<>>,
              result |-> Returned([list |-> <<[text |-> "maximum number of symbols exceeded, only 5 are allowed"]>>])]
        ELSE [trace |-> <<Signed(b1, str_params, signature),
                          Sent("DELETE", base_url \o "/api/v3/openOrders", headers, <<>>, body),
                          Received(response)>>,
              result |-> Returned(response.json)]

cancel_all_open_orders_on_a_symbol(symbols, timestamp, response) ==
    LET headers == << <<"X-MEXC-APIKEY", PyStr(api_key)>>, <<"Content-Type", [text |-> "application/json"]>> >>
        b0 == << <<"timestamp", PyInt(timestamp.int * 1000)>> >>
        b1 == DictSet(b0, "symbol", PyStr(Join(<<",">>, [i \in DOMAIN symbols.list |-> symbols.list[i].str])))
        str_params == urlencode(b1)
        signature == generate_signature(api_secret, str_params)
        body == DictSet(b1, "signature", signature)
    IN  IF Len(symbols.list) > SymbolLimit
        THEN [trace |-> <<>>,
              result |-> Returned([list |-> <<[text |-> "maximum number of symbols exceeded, only 5 are allowed"]>>])]
        ELSE [trace |-> <<Signed(b1, str_params, signature),
                          Sent("DELETE", base_url \o "/api/v3/openOrders", headers, <<>>, body),
                          Received(response)>>,
              result |-> Returned(response.json)]

\* ------------------------------------------------------------ the machine

\* MexcClient(api_key, api_secret); no method has been called yet.
Init ==
    /\ \E c \in Credentials : api_key = c[1] /\ api_secret = c[2]
    /\ base_url = "https://api.mexc.com"
    /\ constructed = [api_key |-> api_key, api_secret |-> api_secret, base_url |-> "https://api.mexc.com"]
    /\ pc = "ready"
    /\ call = [op |-> "none", args |-> None]
    /\ trace = <<>>
    /\ result = None

\* One method call, from entry to return: no handler assigns a field.
Invoke(op, args, outcome) ==
    /\ pc' = "returned"
    /\ call' = [op |-> op, args |-> args]
    /\ trace' = outcome.trace
    /\ result' = outcome.result
    /\ UNCHANGED <<api_key, api_secret, base_url, constructed>>

CheckConnection ==
    /\ pc = "ready"
    /\ \E response \in Responses({EmptyObject}) :
        Invoke("check_connection", None, check_connection(response))

ServerTime ==
    /\ pc = "ready"
    /\ \E response \in Responses({OkBody}) :
        Invoke("server_time", None, server_time(response))

ExchangeInfo ==
    /\ pc = "ready"
    /\ \E response \in Responses({OkBody}) :
        Invoke("exchange_info", None, exchange_info(response))

OrderBookOfSymbol ==
    /\ pc = "ready"
    /\ \E symbol \in Symbols, limit \in Limits, response \in Responses({OkBody}) :
        Invoke("order_book_of_symbol", [symbol |-> PyStr(symbol), limit |-> limit],
               order_book_of_symbol(PyStr(symbol), limit, response))

RecentTradesList ==
    /\ pc = "ready"
    /\ \E symbol \in Symbols, limit \in Limits, response \in Responses({OkBody}) :
        Invoke("recent_trades_list", [symbol |-> PyStr(symbol), limit |-> limit],
               recent_trades_list(PyStr(symbol), limit, response))

OldTradeLookup ==
    /\ pc = "ready"
    /\ \E symbol \in Symbols, limit \in Limits, response \in Responses({OkBody}) :
        Invoke("old_trade_lookup", [symbol |-> PyStr(symbol), limit |-> limit],
               old_trade_lookup(PyStr(symbol), limit, response))

KlineData ==
    /\ pc = "ready"
    /\ \E symbol \in Symbols, interval \in EnumKlineInterval, start_time \in KlineTimes, end_time \in KlineTimes, limit \in Limits, response \in Responses({OkBody}) :
        Invoke("kline_data", [symbol |-> PyStr(symbol), interval |-> interval, start_time |-> start_time, end_time |-> end_time, limit |-> limit],
               kline_data(PyStr(symbol), interval, start_time, end_time, limit, response))

CurrentAveragePrice ==
    /\ pc = "ready"
    /\ \E symbol \in Symbols, response \in Responses({OkBody}) :
        Invoke("current_average_price", [symbol |-> PyStr(symbol)],
               current_average_price(PyStr(symbol), response))

\* The arguments of an order placement.
OrderArgs ==
    [symbol : {PyStr(s) : s \in Symbols}, side : EnumOrderSide, type : EnumOrderType,
     timestamp : Timestamps, quantity : Quantities, quote_order_quantity : QuoteOrderQuantities,
     price : Prices, new_client_order_id : ClientOrderIds, recv_window : RecvWindows]

CreateOrderTest ==
    /\ pc = "ready"
    /\ \E a \in OrderArgs, response \in Responses({OkBody}) :
        Invoke("create_order_test", a,
               create_order_test(a.symbol, a.side, a.type, a.timestamp, a.quantity, a.quote_order_quantity, a.price, a.new_client_order_id, a.recv_window, response))

CreateNewOrder ==
    /\ pc = "ready"
    /\ \E a \in OrderArgs, response \in Responses({OkBody}) :
        Invoke("create_new_order", a,
               create_new_order(a.symbol, a.side, a.type, a.timestamp, a.quantity, a.quote_order_quantity, a.price, a.new_client_order_id, a.recv_window, response))

LoadAccountInfo ==
    /\ pc = "ready"
    /\ \E now \in Timestamps, response \in Responses(AccountBodies) :
        Invoke("_load_account_info", [now |-> now], _load_account_info(now, response))

LoadBalances ==
    /\ pc = "ready"
    /\ \E now \in Timestamps, response \in Responses(AccountBodies) :
        Invoke("load_balances", [now |-> now], load_balances(now, response))

LoadBalanceBySymbol ==
    /\ pc = "ready"
    /\ \E symbol \in Symbols, now \in Timestamps, response \in Responses(AccountBodies) :
        Invoke("load_balance_by_symbol", [symbol |-> PyStr(symbol), now |-> now],
               load_balance_by_symbol(PyStr(symbol), now, response))

CancelOrder ==
    /\ pc = "ready"
    /\ \E symbol \in Symbols, order_id \in OrderIds, timestamp \in Timestamps, response \in Responses({OkBody}) :
        Invoke("cancel_order", [symbol |-> PyStr(symbol), order_id |-> order_id, timestamp |-> timestamp],
               cancel_order(PyStr(symbol), order_id, timestamp, response))

CancelAllOpenOrdersOnASymbol ==
    /\ pc = "ready"
    /\ \E symbols \in SymbolLists, timestamp \in Timestamps, response \in Responses({OkBody}) :
        Invoke("cancel_all_open_orders_on_a_symbol", [symbols |-> symbols, timestamp |-> timestamp],
               cancel_all_open_orders_on_a_symbol(symbols, timestamp, response))

\* The caller takes the result; the call's locals are gone and the client,
\* which keeps nothing of a call, is ready for the next one.
ReturnToCaller ==
    /\ pc = "returned"
    /\ pc' = "ready"
    /\ call' = [op |-> "none", args |-> None]
    /\ trace' = <<>>
    /\ result' = None
    /\ UNCHANGED <<api_key, api_secret, base_url, constructed>>

Next ==
    \/ CheckConnection
    \/ ServerTime
    \/ ExchangeInfo
    \/ OrderBookOfSymbol
    \/ RecentTradesList
    \/ OldTradeLookup
    \/ KlineData
    \/ CurrentAveragePrice
    \/ CreateOrderTest
    \/ CreateNewOrder
    \/ LoadAccountInfo
    \/ LoadBalances
    \/ LoadBalanceBySymbol
    \/ CancelOrder
    \/ CancelAllOpenOrdersOnASymbol
    \/ ReturnToCaller

Spec == Init /\ [][Next]_vars

\* ------------------------------------------------- reading a finished call

CreateOps == {"create_order_test", "create_new_order"}

CancelOps == {"cancel_order", "cancel_all_open_orders_on_a_symbol"}

AccountOps == {"_load_account_info", "load_balances", "load_balance_by_symbol"}

SignedOps == CreateOps \cup CancelOps \cup AccountOps

Signs == SelectSeq(trace, LAMBDA e : e.ev = "sign")

Sends == SelectSeq(trace, LAMBDA e : e.ev = "send")

Recvs == SelectSeq(trace, LAMBDA e : e.ev = "recv")

\* The parameters a request carries, in the query string or in the body.
Transmitted(e) == e.query \o e.data

\* A signed operation has returned after sending its request.
SignedCallSent == pc = "returned" /\ call.op \in SignedOps /\ Sends # <<>>

\* The position of the first event of kind ev in the trace.
IndexOf(ev) == CHOOSE i \in DOMAIN trace : trace[i].ev = ev /\ \A j \in 1..(i - 1) : trace[j].ev # ev

\* Whether the secret occurs in a str value of dict d.
SecretIn(d) == \E i \in DOMAIN d : IsStr(d[i][2]) /\ Contains(d[i][2].str, api_secret)

\* ------------------------------------------------------------------ claims

\* C1: cancel_all_open_orders_on_a_symbol with at most 5 symbols (exactly 5
\* included) issues one DELETE request to /api/v3/openOrders and returns the
\* body the server answered with; with 6 or more symbols it returns the
\* client-side error value and issues no HTTP request.
C1_CancelAllCap ==
    (pc = "returned" /\ call.op = "cancel_all_open_orders_on_a_symbol") =>
        IF Len(call.args.symbols.list) <= 5
        THEN /\ Len(Sends) = 1
             /\ Sends[1].method = "DELETE"
             /\ Sends[1].url = "https://api.mexc.com/api/v3/openOrders"
             /\ Len(Recvs) = 1
             /\ result = Returned(Recvs[1].response.json)
        ELSE /\ Sends = <<>>
             /\ result = Returned([list |-> <<[text |-> "maximum number of symbols exceeded, only 5 are allowed"]>>])

\* C1's case: a call with exactly 5 symbols has gone to the network.
C1_Witness ==
    /\ pc = "returned"
    /\ call.op = "cancel_all_open_orders_on_a_symbol"
    /\ Len(call.args.symbols.list) = 5
    /\ Sends # <<>>

\* C2: in every signed operation the ordered <<key, value>> pairs that are
\* serialized and signed are, in keys, values and order, the pairs of the
\* request once its signature pair is taken out; the signed string is the
\* serialization of exactly those pairs.
C2_SignedIsSent ==
    SignedCallSent =>
        /\ Len(Signs) = 1
        /\ Len(Sends) = 1
        /\ Without(Transmitted(Sends[1]), "signature") = Signs[1].params
        /\ urlencode(Without(Transmitted(Sends[1]), "signature")) = Signs[1].str_params

\* C2's case: an order with every optional argument given, recv_window
\* replacing the default in place, has been signed and sent.
C2_Witness ==
    /\ SignedCallSent
    /\ call.op = "create_new_order"
    /\ Truthy(call.args.price)
    /\ Truthy(call.args.quote_order_quantity)
    /\ Truthy(call.args.new_client_order_id)
    /\ Truthy(call.args.recv_window)
    /\ Keys(Signs[1].params) = <<"symbol", "side", "type", "quantity", "recvWindow", "timestamp", "quoteOrderQty", "price", "newClientOrderId">>

\* C3: every authenticated request carries a timestamp parameter, and where
\* the caller supplies the timestamp in seconds (order placement, cancel
\* order, cancel all open orders) the one sent is that value times 1000.
C3_TimestampMillis ==
    SignedCallSent =>
        /\ HasKey(Transmitted(Sends[1]), "timestamp")
        /\ call.op \in CreateOps \cup CancelOps =>
               Get(Transmitted(Sends[1]), "timestamp") = PyInt(call.args.timestamp.int * 1000)

\* C3's case: cancel_order called with timestamp 2 has sent 2000.
C3_Witness ==
    /\ SignedCallSent
    /\ call.op = "cancel_order"
    /\ call.args.timestamp = PyInt(2)
    /\ Get(Sends[1].data, "timestamp") = PyInt(2000)

\* C4: an authenticated request carries recvWindow 60000 when the caller
\* gives no recv_window and the caller's recv_window whenever one is given,
\* 0 included; in order placement, cancellation and the account query.
C4_RecvWindow ==
    SignedCallSent =>
        /\ HasKey(Transmitted(Sends[1]), "recvWindow")
        /\ Get(Transmitted(Sends[1]), "recvWindow") =
               IF call.op \in CreateOps /\ ~IsNone(call.args.recv_window)
               THEN call.args.recv_window
               ELSE PyInt(60000)

\* C5: load_balance_by_symbol, once the account's balance list is loaded,
\* returns the first record whose asset is the requested code, and a defined
\* result, never a fault, when no record has it (an empty list included).
C5_BalanceLookup ==
    (pc = "returned" /\ call.op = "load_balance_by_symbol" /\ Recvs # <<>> /\ Recvs[1].response.ok) =>
        LET balances == Get(Recvs[1].response.json.dict, "balances").list
            matching == SelectSeq(balances, LAMBDA b : Get(b.dict, "asset") = call.args.symbol)
        IN  IF matching # <<>>
            THEN result = Returned(matching[1])
            ELSE "returned" \in DOMAIN result

\* C6: a public operation that returns the server's body (every public
\* method but check_connection, which answers with a boolean) returns the
\* JSON error body of a non-success response unmodified; load_balances and
\* load_balance_by_symbol among them.
C6_ErrorBodyPassedThrough ==
    (pc = "returned" /\ call.op \notin {"check_connection", "_load_account_info"} /\ Recvs # <<>> /\ ~Recvs[1].response.ok) =>
        result = Returned(Recvs[1].response.json)

\* C7: in order placement each of price, quoteOrderQty and newClientOrderId
\* is sent if and only if the caller gave the argument, and a recv_window
\* the caller gave replaces the default.
C7_OptionalArguments ==
    (SignedCallSent /\ call.op \in CreateOps) =>
        /\ HasKey(Sends[1].data, "price") <=> ~IsNone(call.args.price)
        /\ HasKey(Sends[1].data, "quoteOrderQty") <=> ~IsNone(call.args.quote_order_quantity)
        /\ HasKey(Sends[1].data, "newClientOrderId") <=> ~IsNone(call.args.new_client_order_id)
        /\ ~IsNone(call.args.recv_window) => Get(Sends[1].data, "recvWindow") = call.args.recv_window

\* The price as the exchange expects it: every "," of s turned into ".".
IsNormalized(n, s) ==
    /\ Len(n) = Len(s)
    /\ \A i \in 1..Len(s) : n[i] = (IF s[i] = "," THEN "." ELSE s[i])

VerbOf(op) == IF op \in CreateOps THEN "POST" ELSE IF op \in CancelOps THEN "DELETE" ELSE "GET"

\* C9: a signed request is built in this order: parameters assembled, the
\* signature computed over their serialization with the secret, the
\* signature appended as the last parameter, the request sent; with POST
\* for order placement, DELETE for the cancellations and GET for the
\* account query, the API key in header X-MEXC-APIKEY and no API key in
\* the signed string.
C9_SignThenSend ==
    SignedCallSent =>
        /\ Len(Signs) = 1 /\ Len(Sends) = 1
        /\ IndexOf("sign") < IndexOf("send")
        /\ Signs[1].str_params = urlencode(Signs[1].params)
        /\ Signs[1].signature = [hmac |-> [key |-> api_secret, msg |-> Signs[1].str_params]]
        /\ Transmitted(Sends[1]) = Append(Signs[1].params, <<"signature", Signs[1].signature>>)
        /\ Sends[1].method = VerbOf(call.op)
        /\ HasKey(Sends[1].headers, "X-MEXC-APIKEY")
        /\ Get(Sends[1].headers, "X-MEXC-APIKEY") = PyStr(api_key)
        /\ \A i \in DOMAIN Signs[1].str_params : ~Contains(Signs[1].str_params[i][2], api_key)

\* C9's case: the account query has gone out with GET, its signature last.
C9_Witness ==
    /\ SignedCallSent
    /\ call.op = "load_balances"
    /\ Sends[1].method = "GET"
    /\ Keys(Sends[1].query) = <<"timestamp", "signature">>

\* C10: whatever calls were made, the client's API key, API secret and base
\* URL are those set at construction, and no header or parameter of a
\* request sent carries the API secret.
C10_CredentialsKept ==
    /\ api_key = constructed.api_key
    /\ api_secret = constructed.api_secret
    /\ base_url = constructed.base_url
    /\ \A i \in DOMAIN Sends :
           /\ ~SecretIn(Sends[i].headers)
           /\ ~SecretIn(Sends[i].query)
           /\ ~SecretIn(Sends[i].data)

\* C10's case: a signed call that failed after its request had gone out.
C10_Witness ==
    /\ SignedCallSent
    /\ "raised" \in DOMAIN result
    /\ Sends[1].headers # <<>>
    /\ api_secret = constructed.api_secret

====
